---- MODULE Spec2Model ----
(***************************************************************************)
(* Model of Computer.cpp: the ComputerVM launcher.  One control thread      *)
(* runs main() -> boot() -> startQEMU() / startWebsockify() / cleanup();    *)
(* the emulator and the bridge are forked children; the filesystem, the     *)
(* outcome of fork() and of the external tools, and the arrival of          *)
(* SIGINT/SIGTERM are the environment.                                      *)
(*                                                                          *)
(* Two drivers share the same boot/cleanup actions:                         *)
(*   Spec     main() as written (lines 328-357), with the signal handler;   *)
(*   SpecAPI  the public methods of ComputerVM (setVNCMode, boot, cleanup)  *)
(*            called in any order on one object, on a filesystem that no    *)
(*            other party changes meanwhile;                                *)
(*   SpecBuild  setVNCMode, then the public buildQEMUCommand() called       *)
(*            repeatedly on one object, on an unchanged filesystem.         *)
(***************************************************************************)
EXTENDS Integers, Sequences, FiniteSets, TLC

(* ------------------------------ bounds -------------------------------- *)
\* number of filesystem changes other parties make during one run
MaxExtChanges == 1
\* SpecAPI: number of boot() and cleanup() calls made on one object
MaxCalls == 3
\* number of command-line arguments after argv[0]
MaxArgs == 2
\* number of children the process may create before fork() fails (EAGAIN)
MaxProcs == 2

(* ------------------------ program constants --------------------------- *)
NoPid == -1
diskPath == "./devices/disk/disk.qcow2"
romPath == "./devices/rom"
firmwarePath == "./boot/firmware/OVMF_CODE.fd"
noVNCPath == "./libraries/noVNC"
varsPath == "./boot/firmware/OVMF_VARS.fd"
VarsBytes == 64 * 1024
\* the [ERROR] lines boot() and its callees print
NoDiskMsg == "No disk or ISO available!"
LibsMsg == "Required libraries not found for VNC mode!"
ForkQemuMsg == "Failed to fork QEMU process!"
NoVNCDirMsg == "noVNC directory not found!"
ForkBridgeMsg == "Failed to fork websockify process!"

(* --------------------------- environment ------------------------------ *)
\* directory entries the media directory may hold: name = stem + ext
RomEntries ==
  { [stem |-> "a", ext |-> ".iso"],
    [stem |-> "b", ext |-> ".iso"],
    [stem |-> "notes", ext |-> ".txt"] }

\* contents of the variable-store file: absent, a file of `size` bytes that
\* is all zero or not
VarsAbsent == [present |-> FALSE, size |-> 0, zero |-> TRUE]
VarsUsed == [present |-> TRUE, size |-> VarsBytes, zero |-> FALSE]
VarsFresh == [present |-> TRUE, size |-> VarsBytes, zero |-> TRUE]

VARIABLES
  \* filesystem and installed tools
  firmwareFile,   \* BOOLEAN: ./boot/firmware/OVMF_CODE.fd exists
  varsFile,       \* record above: ./boot/firmware/OVMF_VARS.fd
  diskFile,       \* "absent" | "orig" (was there) | "created" (by qemu-img)
  romDir,         \* set of entries of ./devices/rom
  romState,       \* "missing" | "unreadable" | "ok": the directory itself
  noVNCDir,       \* BOOLEAN: ./libraries/noVNC exists
  whichWebsockify,\* BOOLEAN: `which websockify` exits 0
  extChanges,     \* filesystem changes made by other parties so far
  \* ComputerVM fields
  useVNC, qemuPid, websockifyPid,
  \* children of this process, by pid = index: [role, st]
  \*   st: "live" | "zombie" (exited, not reaped) | "reaped"
  procs,
  \* control
  pc,             \* position of the control thread
  cleanupRet,     \* who called cleanup(): "boot" | "api"
  handlers,       \* BOOLEAN: signal(SIGINT/SIGTERM, signalHandler) done
  exitCode,       \* <<>> while the process runs, <<status>> once it exited
  \* locals of boot() and its callees
  diskOk, isoFile, isoOk, noVNCOk, websockifyOk, cmd, ret, bootResult,
  \* observable output and history
  errLog,         \* last [ERROR] line printed by the current boot ("" none)
  infoLog,        \* source classification line printed by the current boot
  createLog,      \* "none" | "ok" | "failed": qemu-img in the current boot
  sysLog,         \* kill()/waitpid() calls of the latest cleanup() call
  atCleanup,      \* procs as it was when the latest cleanup() call began
  reachedRunning, \* main reached the while(true) loop
  calls           \* SpecAPI: boot() and cleanup() calls made so far

vars ==
  << firmwareFile, varsFile, diskFile, romDir, romState, noVNCDir,
     whichWebsockify, extChanges, useVNC, qemuPid, websockifyPid, procs,
     pc, cleanupRet, handlers, exitCode, diskOk, isoFile, isoOk, noVNCOk,
     websockifyOk, cmd, ret, bootResult, errLog, infoLog, createLog, sysLog,
     atCleanup, reachedRunning, calls >>

fsVars ==
  << firmwareFile, varsFile, diskFile, romDir, romState, noVNCDir,
     whichWebsockify, extChanges >>
objVars == << useVNC, qemuPid, websockifyPid >>
localVars == << diskOk, isoFile, isoOk, noVNCOk, websockifyOk, cmd, ret, bootResult >>
logVars == << errLog, infoLog, createLog >>
apiVars == << calls >>

(* --------------------------- pure helpers ----------------------------- *)
\* mutant: the existence test never sees the image
DiskExists_Never(d) == FALSE

\* fs::exists(diskPath)
DiskExists(d) == d # "absent"

\* entry.path().string() of a directory entry of romPath
EntryPath(e) == romPath \o "/" \o e.stem \o e.ext

\* findISO(): the first entry, in the directory's iteration order, whose
\* extension is ".iso"; "" when there is none or the directory cannot be
\* read.  The iteration order is unspecified, so every matching entry is a
\* possible result.
findISO(state, dir) ==
  IF state # "ok" THEN {""}
  ELSE LET isos == { e \in dir : e.ext = ".iso" }
       IN  IF isos = {} THEN {""} ELSE { EntryPath(e) : e \in isos }

\* mutant: the policy check lets every environment through
NotBootable_Never(dOk, iOk) == FALSE

\* mutant: the media test inverted
NotBootable_IsoInverted(dOk, iOk) == ~dOk /\ iOk

\* boot() line 273
NotBootable(dOk, iOk) == ~dOk /\ ~iOk

\* mutant: fails only when both are missing
MissingLibs_BothNeeded(vnc, nOk, wOk) == vnc /\ (~nOk /\ ~wOk)

\* boot() line 283
MissingLibs(vnc, nOk, wOk) == vnc /\ (~nOk \/ ~wOk)

\* mutant: an image found is reported as the only source
SourceMessage_MediaOnly(iOk, diskNow) ==
  IF iOk THEN "Booting from ISO only!"
  ELSE "There's no ISO on rom/, Booting from disk!"

\* boot() lines 290-296: the [INFO] line naming the boot source
SourceMessage(iOk, diskNow) ==
  IF iOk /\ diskNow THEN "Booting from ISO with disk available!"
  ELSE IF iOk THEN "Booting from ISO only!"
  ELSE "There's no ISO on rom/, Booting from disk!"

\* main() lines 336-342: does argv hold "--no-vnc"
HasNoVNCFlag(argv) == \E i \in 1..Len(argv) : argv[i] = "--no-vnc"

Argvs == UNION { [1..n -> {"--no-vnc", "--verbose"}] : n \in 0..MaxArgs }

\* mutant: the remote-display tokens whatever the mode
DisplayTokens_AlwaysVNC(vnc) == << "-display", "none", "-vnc", ":1" >>

\* mutant: the emulator told to serve display 0
DisplayTokens_DisplayZero(vnc) ==
  IF vnc THEN << "-display", "none", "-vnc", ":0" >>
  ELSE << "-display", "gtk,full-screen=on" >>

\* buildQEMUCommand() lines 111-120
DisplayTokens(vnc) ==
  IF vnc THEN << "-display", "none", "-vnc", ":1" >>
  ELSE << "-display", "gtk,full-screen=on" >>

\* buildQEMUCommand() lines 122-138 (tokens only)
FirmwareTokens(fw) ==
  IF fw
  THEN << "-drive", "if=pflash,format=raw,readonly=on,file=" \o firmwarePath,
          "-drive", "if=pflash,format=raw,file=" \o varsPath >>
  ELSE << >>

\* buildQEMUCommand() lines 140-144
DiskTokens(disk) ==
  IF disk THEN << "-drive", "file=" \o diskPath \o ",format=qcow2,if=virtio" >>
  ELSE << >>

\* mutant: the flag is pushed whether or not an image was found
CdromTokens_Unconditional(iso) == << "-cdrom", iso >>

\* buildQEMUCommand() lines 146-152
CdromTokens(iso) == IF iso # "" THEN << "-cdrom", iso >> ELSE << >>

\* mutant: the media drive pushed before the disk drive
buildQEMUCommand_CdromBeforeDisk(vnc, fw, disk, iso) ==
  << "qemu-system-x86_64", "-enable-kvm", "-cpu", "host", "-smp", "4",
     "-m", "4G", "-vga", "virtio" >>
  \o DisplayTokens(vnc)
  \o FirmwareTokens(fw)
  \o CdromTokens(iso)
  \o DiskTokens(disk)
  \o << "-audiodev", "alsa,id=audio0", "-device", "intel-hda",
        "-device", "hda-duplex,audiodev=audio0",
        "-netdev", "user,id=net0", "-device", "virtio-net-pci,netdev=net0",
        "-device", "usb-ehci", "-device", "usb-tablet",
        "-rtc", "base=localtime,clock=host" >>

\* mutant: the disk is left out when an image was found
buildQEMUCommand_MediaOnly(vnc, fw, disk, iso) ==
  << "qemu-system-x86_64", "-enable-kvm", "-cpu", "host", "-smp", "4",
     "-m", "4G", "-vga", "virtio" >>
  \o DisplayTokens(vnc)
  \o FirmwareTokens(fw)
  \o (IF iso # "" THEN CdromTokens(iso) ELSE DiskTokens(disk))
  \o << "-audiodev", "alsa,id=audio0", "-device", "intel-hda",
        "-device", "hda-duplex,audiodev=audio0",
        "-netdev", "user,id=net0", "-device", "virtio-net-pci,netdev=net0",
        "-device", "usb-ehci", "-device", "usb-tablet",
        "-rtc", "base=localtime,clock=host" >>

\* buildQEMUCommand() lines 93-179: the token sequence, given what the
\* filesystem shows while it runs
buildQEMUCommand(vnc, fw, disk, iso) ==
  << "qemu-system-x86_64", "-enable-kvm", "-cpu", "host", "-smp", "4",
     "-m", "4G", "-vga", "virtio" >>
  \o DisplayTokens(vnc)
  \o FirmwareTokens(fw)
  \o DiskTokens(disk)
  \o CdromTokens(iso)
  \o << "-audiodev", "alsa,id=audio0", "-device", "intel-hda",
        "-device", "hda-duplex,audiodev=audio0",
        "-netdev", "user,id=net0", "-device", "virtio-net-pci,netdev=net0",
        "-device", "usb-ehci", "-device", "usb-tablet",
        "-rtc", "base=localtime,clock=host" >>

\* mutant: the store is written without looking whether it exists
VarsAfterBuild_AlwaysWrite(fw, v) == IF fw THEN VarsFresh ELSE v

\* buildQEMUCommand() lines 127-135: the variable store after a build
VarsAfterBuild(fw, v) == IF fw /\ ~v.present THEN VarsFresh ELSE v

\* startWebsockify() line 195: the words of the command line the bridge
\* child (role "websockify") hands to sh -c
websockifyCommand ==
  << "websockify", "--web=" \o noVNCPath, "8080", "localhost:5901" >>

\* pid of the next child fork() creates
NextPid == Len(procs) + 1

\* the outcomes fork() may have: it may always fail, and it fails once the
\* process limit is reached
ForkOutcomes == IF Len(procs) < MaxProcs THEN BOOLEAN ELSE {FALSE}

\* children running, and children not yet waited for
LiveChildren == { p \in 1..Len(procs) : procs[p].st = "live" }
Unreaped == { p \in 1..Len(procs) : procs[p].st # "reaped" }

(* ------------------------------- Init --------------------------------- *)
\* The environment a run may start in; the object right after its
\* constructor (lines 24-32); no child yet.
InitCommon ==
  /\ firmwareFile \in BOOLEAN
  /\ varsFile \in {VarsAbsent, VarsUsed}
  /\ diskFile \in {"absent", "orig"}
  /\ romState \in {"missing", "unreadable", "ok"}
  /\ romDir \in SUBSET RomEntries
  /\ (romState # "ok" => romDir = {})
  /\ noVNCDir \in BOOLEAN
  /\ whichWebsockify \in BOOLEAN
  /\ extChanges = 0
  /\ useVNC = TRUE
  /\ qemuPid = NoPid
  /\ websockifyPid = NoPid
  /\ procs = << >>
  /\ cleanupRet = "boot"
  /\ exitCode = << >>
  /\ diskOk = FALSE /\ isoFile = "" /\ isoOk = FALSE
  /\ noVNCOk = FALSE /\ websockifyOk = FALSE
  /\ cmd = << >> /\ ret = FALSE /\ bootResult = FALSE
  /\ errLog = "" /\ infoLog = "" /\ createLog = "none"
  /\ sysLog = << >>
  /\ atCleanup = << >>
  /\ reachedRunning = FALSE
  /\ calls = 0

Init == InitCommon /\ pc = "main_330" /\ handlers = FALSE

InitAPI == InitCommon /\ pc = "idle" /\ handlers = FALSE

(* ------------------------------ boot() -------------------------------- *)
\* lines 255-262: createDirectories() (creates a missing media directory,
\* unless create_directories throws), checkFile(firmware) (output only).
\* The locals and the per-boot output start empty.
BootStart ==
  /\ pc = "boot_255"
  /\ \E created \in BOOLEAN :
       romState' = IF romState = "missing" /\ created THEN "ok" ELSE romState
  /\ diskOk' = FALSE /\ isoFile' = "" /\ isoOk' = FALSE
  /\ noVNCOk' = FALSE /\ websockifyOk' = FALSE
  /\ cmd' = << >> /\ ret' = FALSE /\ bootResult' = FALSE
  /\ errLog' = "" /\ infoLog' = "" /\ createLog' = "none"
  /\ pc' = "boot_263"
  /\ UNCHANGED << firmwareFile, varsFile, diskFile, romDir, noVNCDir,
                  whichWebsockify, extChanges, objVars, procs, cleanupRet,
                  handlers, exitCode, sysLog, atCleanup, reachedRunning, apiVars >>

\* line 263, left operand: checkFile(diskPath, "Disk")
BootCheckDisk ==
  /\ pc = "boot_263"
  /\ IF DiskExists(diskFile)
     THEN diskOk' = TRUE /\ pc' = "boot_264"
     ELSE diskOk' = FALSE /\ pc' = "createDefaultDisk_78"
  /\ UNCHANGED << fsVars, objVars, procs, cleanupRet, handlers, exitCode,
                  isoFile, isoOk, noVNCOk, websockifyOk, cmd, ret, bootResult,
                  logVars, sysLog, atCleanup, reachedRunning, apiVars >>

\* mutant: the result of createDefaultDisk() does not reach diskOk
CreateDefaultDisk_ResultIgnored ==
  /\ pc = "createDefaultDisk_78"
  /\ IF ~DiskExists(diskFile)
     THEN \E result \in {0, 1} :
            /\ diskFile' = IF result = 0 THEN "created" ELSE diskFile
            /\ createLog' = IF result = 0 THEN "ok" ELSE "failed"
     ELSE UNCHANGED << diskFile, createLog >>
  /\ diskOk' = FALSE
  /\ pc' = "boot_264"
  /\ UNCHANGED << firmwareFile, varsFile, romDir, romState, noVNCDir,
                  whichWebsockify, extChanges, objVars, procs, cleanupRet,
                  handlers, exitCode, isoFile, isoOk, noVNCOk, websockifyOk,
                  cmd, ret, bootResult, errLog, infoLog, sysLog, atCleanup,
                  reachedRunning, apiVars >>

\* lines 77-91: createDefaultDisk(), the right operand of line 263.
\* system("qemu-img create ...") either makes the image and exits 0 or fails.
CreateDefaultDisk ==
  /\ pc = "createDefaultDisk_78"
  /\ IF ~DiskExists(diskFile)
     THEN \E result \in {0, 1} :
            /\ diskFile' = IF result = 0 THEN "created" ELSE diskFile
            /\ createLog' = IF result = 0 THEN "ok" ELSE "failed"
            /\ diskOk' = (result = 0)
     ELSE diskOk' = TRUE /\ UNCHANGED << diskFile, createLog >>
  /\ pc' = "boot_264"
  /\ UNCHANGED << firmwareFile, varsFile, romDir, romState, noVNCDir,
                  whichWebsockify, extChanges, objVars, procs, cleanupRet,
                  handlers, exitCode, isoFile, isoOk, noVNCOk, websockifyOk,
                  cmd, ret, bootResult, errLog, infoLog, sysLog, atCleanup,
                  reachedRunning, apiVars >>

\* lines 264-271: findISO() and isoOk
BootFindISO ==
  /\ pc = "boot_264"
  /\ \E f \in findISO(romState, romDir) :
       isoFile' = f /\ isoOk' = (f # "")
  /\ pc' = "boot_273"
  /\ UNCHANGED << fsVars, objVars, procs, cleanupRet, handlers, exitCode,
                  diskOk, noVNCOk, websockifyOk, cmd, ret, bootResult,
                  logVars, sysLog, atCleanup, reachedRunning, apiVars >>

\* lines 273-276
BootPolicyDisk ==
  /\ pc = "boot_273"
  /\ IF NotBootable(diskOk, isoOk)
     THEN /\ errLog' = NoDiskMsg
          /\ bootResult' = FALSE
          /\ pc' = "boot_ret"
     ELSE /\ pc' = "boot_279"
          /\ UNCHANGED << errLog, bootResult >>
  /\ UNCHANGED << fsVars, objVars, procs, cleanupRet, handlers, exitCode,
                  diskOk, isoFile, isoOk, noVNCOk, websockifyOk, cmd, ret,
                  infoLog, createLog, sysLog, atCleanup, reachedRunning, apiVars >>

\* lines 278-286
BootCheckLibs ==
  /\ pc = "boot_279"
  /\ noVNCOk' = noVNCDir
  /\ websockifyOk' = whichWebsockify
  /\ IF MissingLibs(useVNC, noVNCDir, whichWebsockify)
     THEN /\ errLog' = LibsMsg
          /\ bootResult' = FALSE
          /\ pc' = "boot_ret"
     ELSE /\ pc' = "boot_290"
          /\ UNCHANGED << errLog, bootResult >>
  /\ UNCHANGED << fsVars, objVars, procs, cleanupRet, handlers, exitCode,
                  diskOk, isoFile, isoOk, cmd, ret, infoLog, createLog,
                  sysLog, atCleanup, reachedRunning, apiVars >>

\* lines 288-296
BootClassify ==
  /\ pc = "boot_290"
  /\ infoLog' = SourceMessage(isoOk, DiskExists(diskFile))
  /\ pc' = "startQEMU_211"
  /\ UNCHANGED << fsVars, objVars, procs, cleanupRet, handlers, exitCode,
                  localVars, errLog, createLog, sysLog, atCleanup, reachedRunning,
                  apiVars >>

(* ---------------------------- startQEMU() ----------------------------- *)
\* line 211: buildQEMUCommand() reads the filesystem again and creates the
\* variable store when the firmware is there and the store is not
StartQEMUBuild ==
  /\ pc = "startQEMU_211"
  /\ \E f \in findISO(romState, romDir) :
       cmd' = buildQEMUCommand(useVNC, firmwareFile, DiskExists(diskFile), f)
  /\ varsFile' = VarsAfterBuild(firmwareFile, varsFile)
  /\ pc' = "startQEMU_228"
  /\ UNCHANGED << firmwareFile, diskFile, romDir, romState, noVNCDir,
                  whichWebsockify, extChanges, objVars, procs, cleanupRet,
                  handlers, exitCode, diskOk, isoFile, isoOk, noVNCOk,
                  websockifyOk, ret, bootResult, logVars, sysLog, atCleanup,
                  reachedRunning, apiVars >>

\* lines 228-240: fork(); the parent records the pid, or reports failure
StartQEMUFork ==
  /\ pc = "startQEMU_228"
  /\ \E forked \in ForkOutcomes :
       IF forked
       THEN /\ procs' = Append(procs, [role |-> "qemu", st |-> "live"])
            /\ qemuPid' = NextPid
            /\ pc' = "startQEMU_235"
            /\ UNCHANGED << errLog, ret >>
       ELSE /\ errLog' = ForkQemuMsg
            /\ ret' = FALSE
            /\ pc' = "boot_299"
            /\ UNCHANGED << procs, qemuPid >>
  /\ UNCHANGED << fsVars, useVNC, websockifyPid, cleanupRet, handlers,
                  exitCode, diskOk, isoFile, isoOk, noVNCOk, websockifyOk,
                  cmd, bootResult, infoLog, createLog, sysLog, atCleanup,
                  reachedRunning, apiVars >>

\* lines 235-236: sleep(3); return true
StartQEMUSleep ==
  /\ pc = "startQEMU_235"
  /\ ret' = TRUE
  /\ pc' = "boot_299"
  /\ UNCHANGED << fsVars, objVars, procs, cleanupRet, handlers, exitCode,
                  diskOk, isoFile, isoOk, noVNCOk, websockifyOk, cmd,
                  bootResult, logVars, sysLog, atCleanup, reachedRunning, apiVars >>

\* mutant: the result of startQEMU() is not looked at
BootAfterQEMU_IgnoreFailure ==
  /\ pc = "boot_299"
  /\ IF useVNC
     THEN pc' = "startWebsockify_182" /\ UNCHANGED bootResult
     ELSE bootResult' = TRUE /\ pc' = "boot_ret"
  /\ UNCHANGED << fsVars, objVars, procs, cleanupRet, handlers, exitCode,
                  diskOk, isoFile, isoOk, noVNCOk, websockifyOk, cmd, ret,
                  logVars, sysLog, atCleanup, reachedRunning, apiVars >>

\* lines 299-304 and 311-315: the emulator's result, then the display mode
BootAfterQEMU ==
  /\ pc = "boot_299"
  /\ IF ~ret
     THEN bootResult' = FALSE /\ pc' = "boot_ret"
     ELSE IF useVNC
          THEN pc' = "startWebsockify_182" /\ UNCHANGED bootResult
          ELSE bootResult' = TRUE /\ pc' = "boot_ret"
  /\ UNCHANGED << fsVars, objVars, procs, cleanupRet, handlers, exitCode,
                  diskOk, isoFile, isoOk, noVNCOk, websockifyOk, cmd, ret,
                  logVars, sysLog, atCleanup, reachedRunning, apiVars >>

(* -------------------------- startWebsockify() ------------------------- *)
\* lines 182-190
StartWebsockifyCheck ==
  /\ pc = "startWebsockify_182"
  /\ IF ~useVNC
     THEN ret' = TRUE /\ pc' = "boot_305" /\ UNCHANGED errLog
     ELSE IF ~noVNCDir
          THEN /\ errLog' = NoVNCDirMsg
               /\ ret' = FALSE
               /\ pc' = "boot_305"
          ELSE pc' = "startWebsockify_192" /\ UNCHANGED << errLog, ret >>
  /\ UNCHANGED << fsVars, objVars, procs, cleanupRet, handlers, exitCode,
                  diskOk, isoFile, isoOk, noVNCOk, websockifyOk, cmd,
                  bootResult, infoLog, createLog, sysLog, atCleanup, reachedRunning,
                  apiVars >>

\* lines 192-205
StartWebsockifyFork ==
  /\ pc = "startWebsockify_192"
  /\ \E forked \in ForkOutcomes :
       IF forked
       THEN /\ procs' = Append(procs, [role |-> "websockify", st |-> "live"])
            /\ websockifyPid' = NextPid
            /\ pc' = "startWebsockify_200"
            /\ UNCHANGED << errLog, ret >>
       ELSE /\ errLog' = ForkBridgeMsg
            /\ ret' = FALSE
            /\ pc' = "boot_305"
            /\ UNCHANGED << procs, websockifyPid >>
  /\ UNCHANGED << fsVars, useVNC, qemuPid, cleanupRet, handlers, exitCode,
                  diskOk, isoFile, isoOk, noVNCOk, websockifyOk, cmd,
                  bootResult, infoLog, createLog, sysLog, atCleanup, reachedRunning,
                  apiVars >>

\* lines 200-201: sleep(2); return true
StartWebsockifySleep ==
  /\ pc = "startWebsockify_200"
  /\ ret' = TRUE
  /\ pc' = "boot_305"
  /\ UNCHANGED << fsVars, objVars, procs, cleanupRet, handlers, exitCode,
                  diskOk, isoFile, isoOk, noVNCOk, websockifyOk, cmd,
                  bootResult, logVars, sysLog, atCleanup, reachedRunning, apiVars >>

\* mutant: a failed bridge launch returns false without cleanup()
BootAfterWebsockify_NoRollback ==
  /\ pc = "boot_305"
  /\ bootResult' = ret
  /\ pc' = "boot_ret"
  /\ UNCHANGED << fsVars, objVars, procs, cleanupRet, handlers, exitCode,
                  diskOk, isoFile, isoOk, noVNCOk, websockifyOk, cmd, ret,
                  logVars, sysLog, atCleanup, reachedRunning, apiVars >>

\* lines 305-310 and 315: on a failed bridge launch call cleanup(), whose
\* return is followed by `return false`; otherwise return true
BootAfterWebsockify ==
  /\ pc = "boot_305"
  /\ IF ~ret
     THEN /\ pc' = "cleanup_244" /\ cleanupRet' = "boot"
          /\ sysLog' = << >> /\ atCleanup' = procs
          /\ UNCHANGED bootResult
     ELSE /\ bootResult' = TRUE /\ pc' = "boot_ret"
          /\ UNCHANGED << cleanupRet, sysLog, atCleanup >>
  /\ UNCHANGED << fsVars, objVars, procs, handlers, exitCode, diskOk,
                  isoFile, isoOk, noVNCOk, websockifyOk, cmd, ret, logVars,
                  reachedRunning, apiVars >>

(* ------------------------------ cleanup() ----------------------------- *)
\* kill(pid, SIGTERM) as the kernel sees it: the call is recorded with the
\* state of the child the pid names at that moment
KillCall(pid) == [call |-> "kill", pid |-> pid, st |-> procs[pid].st]
WaitCall(pid) == [call |-> "waitpid", pid |-> pid, st |-> procs[pid].st]

\* waitpid(pid, nullptr, 0): reaps an exited child; fails at once (ECHILD)
\* on a pid already reaped; blocks while the child runs
Reap(pid) ==
  IF procs[pid].st = "zombie" THEN [procs EXCEPT ![pid].st = "reaped"] ELSE procs

\* lines 244-245
CleanupKillQemu ==
  /\ pc = "cleanup_244"
  /\ IF qemuPid # NoPid
     THEN sysLog' = Append(sysLog, KillCall(qemuPid)) /\ pc' = "cleanup_246"
     ELSE pc' = "cleanup_248" /\ UNCHANGED sysLog
  /\ UNCHANGED << fsVars, objVars, procs, cleanupRet, handlers, exitCode,
                  localVars, logVars, atCleanup, reachedRunning, apiVars >>

\* lines 248-249
CleanupKillWebsockify ==
  /\ pc = "cleanup_248"
  /\ IF websockifyPid # NoPid
     THEN sysLog' = Append(sysLog, KillCall(websockifyPid)) /\ pc' = "cleanup_250"
     ELSE pc' = "cleanup_252" /\ UNCHANGED sysLog
  /\ UNCHANGED << fsVars, objVars, procs, cleanupRet, handlers, exitCode,
                  localVars, logVars, atCleanup, reachedRunning, apiVars >>

\* lines 246 and 250: waitpid() on the pid just signalled
CleanupWait ==
  /\ pc \in {"cleanup_246", "cleanup_250"}
  /\ LET pid == IF pc = "cleanup_246" THEN qemuPid ELSE websockifyPid
     IN  /\ procs[pid].st # "live"
         /\ sysLog' = Append(sysLog, WaitCall(pid))
         /\ procs' = Reap(pid)
  /\ pc' = IF pc = "cleanup_246" THEN "cleanup_248" ELSE "cleanup_252"
  /\ UNCHANGED << fsVars, objVars, cleanupRet, handlers, exitCode,
                  localVars, logVars, atCleanup, reachedRunning, apiVars >>

\* line 252: back to the caller; in boot() that is line 307, return false
CleanupReturn ==
  /\ pc = "cleanup_252"
  /\ IF cleanupRet = "boot"
     THEN bootResult' = FALSE /\ pc' = "boot_ret"
     ELSE pc' = "idle" /\ UNCHANGED bootResult
  /\ UNCHANGED << fsVars, objVars, procs, cleanupRet, handlers, exitCode,
                  diskOk, isoFile, isoOk, noVNCOk, websockifyOk, cmd, ret,
                  logVars, sysLog, atCleanup, reachedRunning, apiVars >>

(* ------------------------------- main() ------------------------------- *)
\* lines 330-333: register the handlers, construct the object
MainInstallHandlers ==
  /\ pc = "main_330"
  /\ handlers' = TRUE
  /\ pc' = "main_336"
  /\ UNCHANGED << fsVars, objVars, procs, cleanupRet, exitCode, localVars,
                  logVars, sysLog, atCleanup, reachedRunning, apiVars >>

\* lines 336-346: scan argv, setVNCMode(!noVNC), call boot()
MainParseArgs ==
  /\ pc = "main_336"
  /\ \E argv \in Argvs : useVNC' = ~HasNoVNCFlag(argv)
  /\ pc' = "boot_255"
  /\ UNCHANGED << fsVars, qemuPid, websockifyPid, procs, cleanupRet,
                  handlers, exitCode, localVars, logVars, sysLog, atCleanup,
                  reachedRunning, apiVars >>

\* lines 346-354: loop forever after a successful boot, else return 1
MainBootReturned ==
  /\ pc = "boot_ret"
  /\ IF bootResult
     THEN pc' = "main_348" /\ reachedRunning' = TRUE /\ UNCHANGED exitCode
     ELSE pc' = "exited" /\ exitCode' = << 1 >> /\ UNCHANGED reachedRunning
  /\ UNCHANGED << fsVars, objVars, procs, cleanupRet, handlers, localVars,
                  logVars, sysLog, atCleanup, apiVars >>

\* lines 323-326: SIGINT or SIGTERM arrives at any point after the handlers
\* are registered; the handler prints and calls exit(0).  Nothing else runs:
\* the object is a local of main() and has no destructor.
SignalHandler ==
  /\ handlers
  /\ pc # "exited"
  /\ pc' = "exited"
  /\ exitCode' = << 0 >>
  /\ UNCHANGED << fsVars, objVars, procs, cleanupRet, handlers, localVars,
                  logVars, sysLog, atCleanup, reachedRunning, apiVars >>

(* -------------------- the object's public methods --------------------- *)
\* lines 318-320
ApiSetVNCMode ==
  /\ pc = "idle"
  /\ \E enabled \in BOOLEAN : useVNC' = enabled /\ useVNC' # useVNC
  /\ UNCHANGED << fsVars, qemuPid, websockifyPid, procs, pc, cleanupRet,
                  handlers, exitCode, localVars, logVars, sysLog, atCleanup,
                  reachedRunning, apiVars >>

\* a call of boot()
ApiBoot ==
  /\ pc = "idle"
  /\ calls < MaxCalls
  /\ calls' = calls + 1
  /\ pc' = "boot_255"
  /\ UNCHANGED << fsVars, objVars, procs, cleanupRet, handlers, exitCode,
                  localVars, logVars, sysLog, atCleanup, reachedRunning >>

\* boot() returned to the caller
ApiBootReturned ==
  /\ pc = "boot_ret"
  /\ pc' = "idle"
  /\ UNCHANGED << fsVars, objVars, procs, cleanupRet, handlers, exitCode,
                  localVars, logVars, sysLog, atCleanup, reachedRunning, apiVars >>

\* a call of cleanup()
ApiCleanup ==
  /\ pc = "idle"
  /\ calls < MaxCalls
  /\ calls' = calls + 1
  /\ cleanupRet' = "api"
  /\ sysLog' = << >>
  /\ atCleanup' = procs
  /\ pc' = "cleanup_244"
  /\ UNCHANGED << fsVars, objVars, procs, handlers, exitCode, localVars,
                  logVars, reachedRunning >>

(* ---------------------------- environment ----------------------------- *)
\* a child exits (on SIGTERM, on a failed exec, or on its own) and stays a
\* zombie until it is waited for
ChildExit ==
  /\ \E p \in LiveChildren : procs' = [procs EXCEPT ![p].st = "zombie"]
  /\ UNCHANGED << fsVars, objVars, pc, cleanupRet, handlers, exitCode,
                  localVars, logVars, sysLog, atCleanup, reachedRunning, apiVars >>

\* another party changes the filesystem while the program runs
ExternalChange ==
  /\ pc # "exited"
  /\ extChanges < MaxExtChanges
  /\ extChanges' = extChanges + 1
  /\ \/ /\ noVNCDir' = ~noVNCDir
        /\ UNCHANGED << firmwareFile, diskFile, romDir >>
     \/ /\ diskFile' = IF DiskExists(diskFile) THEN "absent" ELSE "orig"
        /\ UNCHANGED << firmwareFile, noVNCDir, romDir >>
     \/ /\ firmwareFile' = ~firmwareFile
        /\ UNCHANGED << diskFile, noVNCDir, romDir >>
     \/ /\ romState = "ok"
        /\ \E e \in RomEntries :
             romDir' = IF e \in romDir THEN romDir \ {e} ELSE romDir \cup {e}
        /\ UNCHANGED << firmwareFile, diskFile, noVNCDir >>
  /\ UNCHANGED << varsFile, romState, whichWebsockify, objVars, procs, pc,
                  cleanupRet, handlers, exitCode, localVars, logVars, sysLog, atCleanup,
                  reachedRunning, apiVars >>

(* --------------------------- specifications --------------------------- *)
BootSteps ==
  \/ BootStart \/ BootCheckDisk \/ CreateDefaultDisk \/ BootFindISO
  \/ BootPolicyDisk \/ BootCheckLibs \/ BootClassify
  \/ StartQEMUBuild \/ StartQEMUFork \/ StartQEMUSleep \/ BootAfterQEMU
  \/ StartWebsockifyCheck \/ StartWebsockifyFork \/ StartWebsockifySleep
  \/ BootAfterWebsockify
  \/ CleanupKillQemu \/ CleanupKillWebsockify \/ CleanupWait
  \/ CleanupReturn

Next ==
  \/ MainInstallHandlers \/ MainParseArgs \/ MainBootReturned
  \/ SignalHandler
  \/ BootSteps
  \/ ChildExit \/ ExternalChange

Spec == Init /\ [][Next]_vars

NextAPI ==
  \/ ApiSetVNCMode \/ ApiBoot \/ ApiBootReturned \/ ApiCleanup
  \/ BootSteps
  \/ ChildExit

SpecAPI == InitAPI /\ [][NextAPI]_vars

(* ------------------- the command builder on its own ------------------- *)
\* lines 318-320, before the first build
BuildSetMode == calls = 0 /\ ApiSetVNCMode

\* lines 93-179: a call of buildQEMUCommand(); the caller keeps the result
ApiBuild ==
  /\ pc = "idle"
  /\ calls < MaxCalls
  /\ calls' = calls + 1
  /\ \E f \in findISO(romState, romDir) :
       cmd' = buildQEMUCommand(useVNC, firmwareFile, DiskExists(diskFile), f)
  /\ varsFile' = VarsAfterBuild(firmwareFile, varsFile)
  /\ UNCHANGED << firmwareFile, diskFile, romDir, romState, noVNCDir,
                  whichWebsockify, extChanges, objVars, procs, pc, cleanupRet,
                  handlers, exitCode, diskOk, isoFile, isoOk, noVNCOk,
                  websockifyOk, ret, bootResult, logVars, sysLog, atCleanup,
                  reachedRunning >>

NextBuild == BuildSetMode \/ ApiBuild

SpecBuild == InitAPI /\ [][NextBuild]_vars

(* ====================================================================== *)
(*                              Properties                                *)
(* ====================================================================== *)
BridgeLaunchErrors == { NoVNCDirMsg, ForkBridgeMsg }

HasToken(c, t) == \E i \in 1..Len(c) : c[i] = t
HasPair(c, a, b) == \E i \in 1..(Len(c) - 1) : c[i] = a /\ c[i + 1] = b

\* positions of the control thread before boot() has read the libraries
BeforeLibsCheck ==
  { "main_330", "main_336", "idle", "boot_255", "boot_263",
    "createDefaultDisk_78", "boot_264", "boot_273", "boot_279" }

\* boot() has returned false to main(), or main() has returned 1 after it
BootFailed ==
  \/ pc = "boot_ret" /\ ~bootResult
  \/ pc = "exited" /\ exitCode = << 1 >>

\* indices of the calls of the latest cleanup() on pid
Calls(call, pid) ==
  { i \in 1..Len(sysLog) : sysLog[i].call = call /\ sysLog[i].pid = pid }

(* C1: when the emulator was launched and the bridge launch then fails,    *)
(* for either cause (web-asset directory missing when startWebsockify      *)
(* looks, or fork failing), then by the time boot() has returned false the *)
(* emulator was sent SIGTERM and then waited for, it is reaped, and no     *)
(* child of the program is left unreaped.                                  *)
C1_Rollback ==
  (BootFailed /\ errLog \in BridgeLaunchErrors) =>
    /\ qemuPid # NoPid
    /\ procs[qemuPid].role = "qemu"
    /\ procs[qemuPid].st = "reaped"
    /\ Unreaped = {}
    /\ \E k \in Calls("kill", qemuPid) :
         \E w \in Calls("waitpid", qemuPid) : k < w

C1_Witness ==
  /\ pc = "exited" /\ exitCode = << 1 >>
  /\ errLog = NoVNCDirMsg
  /\ noVNCOk
  /\ qemuPid # NoPid /\ procs[qemuPid].st = "reaped"

\* the same for the other cause, fork() failing for the bridge
C1_WitnessFork ==
  /\ pc = "boot_ret" /\ ~bootResult
  /\ errLog = ForkBridgeMsg
  /\ qemuPid # NoPid /\ procs[qemuPid].st = "reaped"

(* C2: when a signal arrives while the program is in Running, every live   *)
(* child is sent a termination request and reaped before the program      *)
(* exits: an exit after Running leaves no live child.                      *)
C2_SignalTeardown ==
  (pc = "exited" /\ reachedRunning) => LiveChildren = {}

(* C3: when cleanup() runs with both the emulator and the bridge live, the *)
(* bridge is signalled and reaped before the emulator is signalled.        *)
C3_BridgeFirst ==
  \A q \in Calls("kill", qemuPid) : \A b \in Calls("kill", websockifyPid) :
    ( /\ qemuPid # websockifyPid
      /\ atCleanup[qemuPid].st = "live"
      /\ atCleanup[websockifyPid].st = "live" )
    => /\ b < q
       /\ \E w \in Calls("waitpid", websockifyPid) : w < q

(* C4: an execution that ends without having reached Running, because     *)
(* boot() failed or because a signal aborted it, leaves no child live.     *)
C4_FullRollback ==
  (pc = "exited" /\ ~reachedRunning) => LiveChildren = {}

\* the part of C4 the code keeps: every failed boot() leaves no child
C4_FailedBootPart ==
  BootFailed => Unreaped = {}

(* C5: when the disk image is absent, no media image is found and         *)
(* qemu-img fails, boot() returns false with "No disk or ISO available!"   *)
(* and neither the emulator nor the bridge is launched in that execution.  *)
C5_UnbootableHardStop ==
  (createLog = "failed" /\ ~isoOk /\ pc # "boot_264") =>
    /\ procs = << >>
    /\ cmd = << >>
    /\ qemuPid = NoPid /\ websockifyPid = NoPid
    /\ pc \in {"boot_273", "boot_ret", "exited"}
    /\ ~bootResult
    /\ ~reachedRunning
    /\ (pc = "boot_ret" => errLog = NoDiskMsg)

C5_Witness ==
  /\ pc = "exited" /\ exitCode = << 1 >>
  /\ createLog = "failed" /\ ~isoOk /\ ~DiskExists(diskFile)
  /\ errLog = NoDiskMsg
  /\ procs = << >>

(* C6: when bridged display is requested and boot() finds the web assets   *)
(* or the websockify executable missing, boot() returns false whatever the *)
(* disk and media are, no process is launched, no command is built and the *)
(* display mode stays bridged.                                             *)
C6_BridgedHardDependency ==
  ( /\ useVNC
    /\ ~noVNCOk \/ ~websockifyOk
    /\ errLog # NoDiskMsg
    /\ \/ pc \notin (BeforeLibsCheck \cup {"exited"})
       \/ pc = "exited" /\ exitCode = << 1 >> )
  => /\ BootFailed
     /\ errLog = LibsMsg
     /\ procs = << >>
     /\ cmd = << >>
     /\ ~reachedRunning

C6_Witness ==
  /\ pc = "exited" /\ exitCode = << 1 >>
  /\ useVNC /\ noVNCOk /\ ~websockifyOk
  /\ diskOk /\ isoOk
  /\ errLog = LibsMsg
  /\ procs = << >>

\* the case C7 is about: direct mode, a boot source found, boot() returned
C7_Case ==
  /\ ~useVNC
  /\ diskOk \/ isoOk
  /\ pc \in {"boot_ret", "main_348"}

C7_CommandAndBridge ==
  /\ HasPair(cmd, "-display", "gtk,full-screen=on")
  /\ ~HasToken(cmd, "-vnc")
  /\ ~HasToken(cmd, "none")
  /\ ~HasToken(cmd, ":1")
  /\ \A p \in 1..Len(procs) : procs[p].role # "websockify"
  /\ websockifyPid = NoPid

(* C7 as stated: in direct mode with a boot source available boot()        *)
(* succeeds even with the web assets and the bridge executable absent, the *)
(* command has the local full-screen display tokens and no remote-display  *)
(* tokens, and the bridge is never launched.                               *)
C7_Original ==
  C7_Case => (pc = "boot_ret" => bootResult) /\ C7_CommandAndBridge

(* C7 amended: ... boot() succeeds unless fork() fails for the emulator,   *)
(* and in that case it fails with no child launched; the rest as stated.   *)
C7_DirectMode ==
  C7_Case =>
    /\ pc = "boot_ret" => (bootResult <=> errLog # ForkQemuMsg)
    /\ (pc = "boot_ret" /\ ~bootResult) => procs = << >>
    /\ bootResult => (qemuPid # NoPid /\ procs[qemuPid].role = "qemu")
    /\ C7_CommandAndBridge

C7_Witness ==
  /\ pc = "main_348" /\ ~useVNC /\ bootResult
  /\ ~noVNCDir /\ ~whichWebsockify /\ ~noVNCOk /\ ~websockifyOk
  /\ Len(procs) = 1 /\ procs[1].role = "qemu"
  /\ HasPair(cmd, "-display", "gtk,full-screen=on")

(* C8: in every reachable state a recorded bridge pid implies a recorded   *)
(* emulator pid, every bridge child was forked after an emulator child,    *)
(* and startWebsockify() runs only with the emulator already launched.     *)
C8_BridgeNeedsEmulator ==
  /\ websockifyPid # NoPid => qemuPid # NoPid
  /\ \A p \in 1..Len(procs) :
       procs[p].role = "websockify" =>
         \E q \in 1..(p - 1) : procs[q].role = "qemu"
  /\ pc \in {"startWebsockify_182", "startWebsockify_192", "startWebsockify_200"}
       => (qemuPid # NoPid /\ procs[qemuPid].role = "qemu")

C8_Witness ==
  /\ websockifyPid # NoPid /\ qemuPid # NoPid
  /\ procs[qemuPid].role = "qemu" /\ procs[websockifyPid].role = "websockify"
  /\ qemuPid < websockifyPid
  /\ pc = "main_348"

(* C9: an execution that ends without having reached Running exits with   *)
(* code 1, and an exit with code 0 happens only after Running was reached. *)
C9_ExitCodes ==
  pc = "exited" =>
    /\ ~reachedRunning => exitCode = << 1 >>
    /\ exitCode = << 0 >> => reachedRunning

\* the part of C9 the code keeps: a boot() that returns false is followed by
\* exit code 1 unless a signal arrives first
C9_FailedBootPart ==
  (pc = "exited" /\ exitCode = << 1 >>) => (~reachedRunning /\ ~bootResult)

(* C10: cleanup() called with no unreaped child, whether nothing was ever  *)
(* launched or an earlier cleanup() reaped everything, calls neither       *)
(* kill() nor waitpid().                                                   *)
C10_CleanupIdempotent ==
  (\A p \in 1..Len(atCleanup) : atCleanup[p].st = "reaped") => sysLog = << >>

\* the part of C10 the code keeps: nothing was ever launched
C10_NothingLaunchedPart ==
  (atCleanup = << >> /\ qemuPid = NoPid /\ websockifyPid = NoPid) => sysLog = << >>

(* ------------------- the emulator command, as tokens ------------------ *)
\* the value tokens the drives carry
PflashCodeValue == "if=pflash,format=raw,readonly=on,file=./boot/firmware/OVMF_CODE.fd"
PflashVarsValue == "if=pflash,format=raw,file=./boot/firmware/OVMF_VARS.fd"
VirtioDiskValue == "file=./devices/disk/disk.qcow2,format=qcow2,if=virtio"

\* flag names that take a value, and all flag names
ValueFlags ==
  { "-drive", "-cdrom", "-display", "-vnc", "-device", "-audiodev",
    "-netdev", "-rtc", "-cpu", "-smp", "-m", "-vga" }
AllFlags == ValueFlags \cup { "-enable-kvm" }

FlagPositions(c) == { i \in 1..Len(c) : c[i] \in AllFlags }
Count(c, t) == Cardinality({ i \in 1..Len(c) : c[i] = t })

\* the paths findISO() can return for the entries the model knows
IsoPaths == { EntryPath(e) : e \in { x \in RomEntries : x.ext = ".iso" } }

\* the group of the assembly order a flag at position i belongs to
\* (0 = not a known entry)
GroupOf(c, i) ==
  LET f == c[i]
      v == IF i < Len(c) THEN c[i + 1] ELSE ""
  IN  IF f \in { "-enable-kvm", "-cpu", "-smp", "-m" } THEN 1
      ELSE IF f = "-vga" THEN 2
      ELSE IF f \in { "-display", "-vnc" } THEN 3
      ELSE IF f = "-drive" /\ v = PflashCodeValue THEN 4
      ELSE IF f = "-drive" /\ v = PflashVarsValue THEN 5
      ELSE IF f = "-drive" /\ v = VirtioDiskValue THEN 6
      ELSE IF f = "-cdrom" THEN 7
      ELSE IF f = "-audiodev" THEN 8
      ELSE IF f = "-device" /\ v \in { "intel-hda", "hda-duplex,audiodev=audio0" } THEN 8
      ELSE IF f = "-netdev" THEN 9
      ELSE IF f = "-device" /\ v = "virtio-net-pci,netdev=net0" THEN 9
      ELSE IF f = "-device" /\ v \in { "usb-ehci", "usb-tablet" } THEN 10
      ELSE IF f = "-rtc" THEN 11
      ELSE 0

InOrder(c) ==
  /\ c[1] = "qemu-system-x86_64"
  /\ \A i \in FlagPositions(c) : GroupOf(c, i) # 0
  /\ \A i, j \in FlagPositions(c) : i < j => GroupOf(c, i) <= GroupOf(c, j)
  /\ \A g \in { 1, 2, 3, 8, 9, 10, 11 } :
       \E i \in FlagPositions(c) : GroupOf(c, i) = g

\* the step in which startQEMU() builds the command
BuildStep == pc = "startQEMU_211" /\ pc' = "startQEMU_228"

(* C11: in every built command the token groups appear in the order core   *)
(* flags, graphics adapter, display flags, firmware pflash drive, variable *)
(* store pflash drive, disk drive, media drive, audio, network, USB input, *)
(* real-time clock; every flag belongs to one of these groups and the      *)
(* fixed groups are all there.                                             *)
C11_AssemblyOrder ==
  [][ BuildStep => InOrder(cmd') ]_vars

C11_Witness ==
  /\ cmd # << >>
  /\ \A g \in 1..11 : \E i \in FlagPositions(cmd) : GroupOf(cmd, i) = g

\* every value-taking flag is followed by a value, and a media value is an
\* image path
WellFormed(c) ==
  \A i \in 1..Len(c) :
    /\ c[i] \in ValueFlags =>
         (i < Len(c) /\ c[i + 1] \notin AllFlags /\ c[i + 1] # "")
    /\ c[i] = "-cdrom" => (i < Len(c) /\ c[i + 1] \in IsoPaths)
    /\ c[i] = "-drive" =>
         (i < Len(c) /\ c[i + 1] \in { PflashCodeValue, PflashVarsValue, VirtioDiskValue })

(* C12: a build that finds no firmware emits no pflash token, one that     *)
(* finds no media image emits no -cdrom token, one that finds no disk      *)
(* emits no virtio disk token, no -drive flag is left over for them, and   *)
(* in every built command each value-taking flag is followed by its value. *)
C12_NoDanglingFlags ==
  [][ BuildStep =>
        /\ ~firmwareFile =>
             /\ ~HasToken(cmd', PflashCodeValue)
             /\ ~HasToken(cmd', PflashVarsValue)
             /\ Count(cmd', "-drive") = IF DiskExists(diskFile) THEN 1 ELSE 0
        /\ findISO(romState, romDir) = {""} =>
             /\ ~HasToken(cmd', "-cdrom")
             /\ \A i \in 1..Len(cmd') : cmd'[i] \notin IsoPaths
        /\ ~DiskExists(diskFile) =>
             /\ ~HasToken(cmd', VirtioDiskValue)
             /\ Count(cmd', "-drive") = IF firmwareFile THEN 2 ELSE 0
        /\ WellFormed(cmd')
    ]_vars

C12_Witness ==
  /\ pc = "startQEMU_228"
  /\ extChanges = 1
  /\ ~firmwareFile /\ ~DiskExists(diskFile) /\ findISO(romState, romDir) = {""}
  /\ Count(cmd, "-drive") = 0 /\ ~HasToken(cmd, "-cdrom")
  /\ WellFormed(cmd)

(* C13: a build that finds the firmware and no variable store creates the  *)
(* store as exactly 65536 zero bytes; no step, in any sequence of boots,   *)
(* changes a store that exists; nothing but such a build creates one, so   *)
(* a build without firmware creates none.                                  *)
C13_VarsStore ==
  [][ /\ varsFile.present => varsFile' = varsFile
      /\ (~varsFile.present /\ varsFile'.present) => (BuildStep /\ firmwareFile)
      /\ (BuildStep /\ firmwareFile /\ ~varsFile.present) =>
           (varsFile'.present /\ varsFile'.size = 65536 /\ varsFile'.zero)
      /\ (BuildStep /\ ~firmwareFile) => varsFile' = varsFile
    ]_vars

\* a second build on the object, the first having created the store
C13_Witness ==
  /\ pc = "startQEMU_228"
  /\ Len(procs) >= 1
  /\ firmwareFile
  /\ varsFile.present /\ varsFile.zero /\ varsFile.size = 65536

\* a call of buildQEMUCommand() that follows an earlier one on the same
\* filesystem, with the variable store in place
SecondBuild ==
  /\ pc = "idle" /\ calls' = calls + 1
  /\ cmd # << >>
  /\ cmd' # << >>
  /\ varsFile.present \/ ~firmwareFile

IsoCount == Cardinality({ e \in romDir : e.ext = ".iso" })

C14_SingleImagePart ==
  [][ SecondBuild =>
        /\ (romState # "ok" \/ IsoCount <= 1) => cmd' = cmd
        /\ Len(cmd') = Len(cmd)
        /\ \A i \in 1..Len(cmd) :
             cmd'[i] # cmd[i] => (i > 1 /\ cmd[i - 1] = "-cdrom")
    ]_vars

\* a step of boot() out of position l
BootStepFrom(l) == pc = l /\ pc' \notin { l, "exited" }

\* positions of the flag f followed by the value v in c
At(c, f, v) == { i \in 1..(Len(c) - 1) : c[i] = f /\ c[i + 1] = v }
Precedes(A, B) == A # {} /\ B # {} /\ \A a \in A, b \in B : a < b

\* firmware, disk, one media file, web assets and the bridge executable
\* present, bridged mode requested, nothing changed by another party
FullEnvironment ==
  /\ extChanges = 0
  /\ firmwareFile /\ diskFile = "orig"
  /\ romState = "ok" /\ IsoCount = 1
  /\ noVNCDir /\ whichWebsockify
  /\ useVNC

TheIso == EntryPath(CHOOSE e \in romDir : e.ext = ".iso")

\* the decision of the full environment: bootable, media with disk
FullDecision ==
  /\ BootStepFrom("boot_273") => pc' = "boot_279"
  /\ BootStepFrom("boot_279") => pc' = "boot_290"
  /\ BootStepFrom("boot_290") =>
       /\ infoLog' = "Booting from ISO with disk available!"
       /\ pc' = "startQEMU_211"

\* each entry of the full environment once in c, the firmware, disk and
\* media entries in this order
DrivesInOrder(c) ==
  /\ Cardinality(At(c, "-drive", PflashCodeValue)) = 1
  /\ Cardinality(At(c, "-drive", PflashVarsValue)) = 1
  /\ Cardinality(At(c, "-drive", VirtioDiskValue)) = 1
  /\ Cardinality(At(c, "-cdrom", TheIso)) = 1
  /\ Cardinality(At(c, "-display", "none")) = 1
  /\ Cardinality(At(c, "-vnc", ":1")) = 1
  /\ Precedes(At(c, "-drive", PflashCodeValue), At(c, "-drive", PflashVarsValue))
  /\ Precedes(At(c, "-drive", PflashVarsValue), At(c, "-drive", VirtioDiskValue))
  /\ Precedes(At(c, "-drive", VirtioDiskValue), At(c, "-cdrom", TheIso))
  /\ Precedes(At(c, "-display", "none"), At(c, "-vnc", ":1"))

(* C15 as stated: in the full environment with bridged mode the decision   *)
(* is bootable with source media-with-disk, and the built command holds    *)
(* both pflash drives, the virtio disk drive, the cdrom entry and then     *)
(* the display=none and remote-display tokens, in that order.              *)
C15_Original ==
  [][ FullEnvironment =>
        /\ FullDecision
        /\ BuildStep =>
             /\ DrivesInOrder(cmd')
             /\ Precedes(At(cmd', "-cdrom", TheIso), At(cmd', "-display", "none"))
    ]_vars

(* C15, amended: as C15_Original, but the display=none and remote-display  *)
(* tokens come before the first pflash drive.                              *)
C15_FullEnvironment ==
  [][ FullEnvironment =>
        /\ FullDecision
        /\ BuildStep =>
             /\ DrivesInOrder(cmd')
             /\ Precedes(At(cmd', "-vnc", ":1"), At(cmd', "-drive", PflashCodeValue))
    ]_vars

C15_Witness ==
  /\ FullEnvironment
  /\ pc = "startQEMU_228"
  /\ infoLog = "Booting from ISO with disk available!"
  /\ DrivesInOrder(cmd)
  /\ At(cmd, "-vnc", ":1") = { 13 }

\* the probe found no disk and no media, and createDefaultDisk() succeeded
\* (read once boot() is past findISO())
AutoCreated == createLog = "ok" /\ ~isoOk

\* fork() in startQEMU() gave a running emulator child
EmulatorLaunched ==
  /\ pc' = "startQEMU_235"
  /\ procs' = Append(procs, [role |-> "qemu", st |-> "live"])
  /\ qemuPid' = Len(procs')

AutoCreatedDecision ==
  /\ BootStepFrom("boot_273") => pc' = "boot_279"
  /\ BootStepFrom("boot_290") =>
       /\ infoLog' = "There's no ISO on rom/, Booting from disk!"
       /\ pc' = "startQEMU_211"
  /\ BuildStep => Cardinality(At(cmd', "-drive", VirtioDiskValue)) = 1

(* C16 as stated: when the probe finds no disk and no media and the disk   *)
(* is created, the decision is bootable with source disk-only, the         *)
(* emulator is launched and the command holds the new disk's drive tokens. *)
C16_Original ==
  [][ AutoCreated =>
        /\ AutoCreatedDecision
        /\ BootStepFrom("boot_279") => pc' = "boot_290"
        /\ BootStepFrom("startQEMU_228") => EmulatorLaunched
    ]_vars

(* C16, amended: the same when, in bridged mode, the web assets and the    *)
(* bridge executable are present and no other party changes the            *)
(* filesystem; the emulator is launched unless fork() fails, and then      *)
(* startQEMU() reports the failure.                                        *)
C16_AutoCreatedDisk ==
  [][ (AutoCreated /\ extChanges = 0 /\ (useVNC => noVNCDir /\ whichWebsockify)) =>
        /\ AutoCreatedDecision
        /\ BootStepFrom("boot_279") => pc' = "boot_290"
        /\ BootStepFrom("startQEMU_228") =>
             \/ EmulatorLaunched
             \/ errLog' = ForkQemuMsg /\ ret' = FALSE /\ procs' = procs
    ]_vars

C16_Witness ==
  /\ AutoCreated /\ extChanges = 0
  /\ diskFile = "created"
  /\ pc = "startQEMU_235"
  /\ infoLog = "There's no ISO on rom/, Booting from disk!"
  /\ HasPair(cmd, "-drive", VirtioDiskValue)
  /\ ~HasToken(cmd, "-cdrom")
  /\ qemuPid = 1 /\ procs[1] = [role |-> "qemu", st |-> "live"]

\* every device the filesystem shows is in c
AllDevicesIn(c) ==
  /\ firmwareFile =>
       /\ HasPair(c, "-drive", PflashCodeValue)
       /\ HasPair(c, "-drive", PflashVarsValue)
  /\ DiskExists(diskFile) => HasPair(c, "-drive", VirtioDiskValue)
  /\ findISO(romState, romDir) # { "" } =>
       \E f \in findISO(romState, romDir) : HasPair(c, "-cdrom", f)

SourceMessages ==
  { "Booting from ISO with disk available!", "Booting from ISO only!",
    "There's no ISO on rom/, Booting from disk!" }

(* C17: the command built for a bootable environment holds the firmware    *)
(* pflash pair when the firmware is present, the disk drive when the disk  *)
(* is present and the cdrom entry when an image is found, all at once and  *)
(* whatever source was reported; reporting the source writes the log       *)
(* message only and always leads on to the emulator launch.                *)
C17_EveryDevicePassed ==
  [][ /\ BuildStep => (infoLog \in SourceMessages /\ AllDevicesIn(cmd'))
      /\ BootStepFrom("boot_290") =>
           /\ pc' = "startQEMU_211"
           /\ infoLog' \in SourceMessages
           /\ UNCHANGED << fsVars, objVars, procs, cleanupRet, handlers,
                           exitCode, localVars, errLog, createLog, sysLog,
                           atCleanup, reachedRunning, apiVars >>
    ]_vars

C17_Witness ==
  /\ pc = "startQEMU_235"
  /\ Len(procs) = 1 /\ procs[1].role = "qemu"
  /\ firmwareFile /\ DiskExists(diskFile) /\ findISO(romState, romDir) # { "" }
  /\ infoLog = "Booting from ISO with disk available!"
  /\ HasPair(cmd, "-drive", PflashCodeValue)
  /\ HasPair(cmd, "-drive", PflashVarsValue)
  /\ HasPair(cmd, "-drive", VirtioDiskValue)
  /\ HasToken(cmd, "-cdrom")

\* decimal numerals
Digit == << "0", "1", "2", "3", "4", "5", "6", "7", "8", "9" >>

RECURSIVE NatString(_)
NatString(n) ==
  IF n < 10 THEN Digit[n + 1]
  ELSE NatString(n \div 10) \o Digit[(n % 10) + 1]

\* the display numbers a remote-display flag may name, and the TCP port on
\* which the emulator serves display d
Displays == 0..99
VncPort(d) == 5900 + d

\* the value ":d" after -vnc and the upstream word "localhost:port" name
\* the same channel
SameChannel(c, w) ==
  \E d \in Displays :
    /\ At(c, "-vnc", ":" \o NatString(d)) # {}
    /\ w[Len(w)] = "localhost:" \o NatString(VncPort(d))

BridgeForked == pc = "startWebsockify_192" /\ pc' = "startWebsockify_200"

(* C18: whenever the bridge is started, the upstream address in its        *)
(* command line is the local host at TCP port 5900 plus the display number *)
(* given after -vnc in the emulator command.                               *)
C18_ChannelConsistency ==
  [][ BridgeForked =>
        /\ useVNC
        /\ Count(cmd, "-vnc") = 1
        /\ SameChannel(cmd, websockifyCommand)
    ]_vars

C18_Witness ==
  /\ pc = "startWebsockify_200"
  /\ qemuPid = 1 /\ procs[1] = [role |-> "qemu", st |-> "live"]
  /\ websockifyPid = 2 /\ procs[2] = [role |-> "websockify", st |-> "live"]
  /\ HasPair(cmd, "-vnc", ":" \o NatString(1))
  /\ websockifyCommand[4] = "localhost:" \o NatString(5901)

\* qemu-img was run in this step
ToolInvoked == createLog' \in { "ok", "failed" } /\ createLog' # createLog

\* the image file is there, whoever made it
ImagePresent == diskFile \in { "orig", "created" }

(* C19: over any sequence of boot() calls the disk-creation tool runs only *)
(* in createDefaultDisk() with the image absent at its check, an existing  *)
(* image is left as it is, and with the image absent the tool is run       *)
(* whatever the media directory holds.                                     *)
C19_DiskNeverOverwritten ==
  [][ /\ ToolInvoked => (pc = "createDefaultDisk_78" /\ ~ImagePresent)
      /\ ImagePresent => diskFile' = diskFile
      /\ (BootStepFrom("boot_263") /\ ~ImagePresent) =>
           pc' = "createDefaultDisk_78"
      /\ (BootStepFrom("createDefaultDisk_78") /\ ~ImagePresent) =>
           ToolInvoked
    ]_vars

C19_Witness ==
  /\ calls >= 2
  /\ pc = "boot_264"
  /\ diskFile = "created" /\ diskOk
  /\ createLog = "none"
  /\ findISO(romState, romDir) # { "" }

\* fork() in startQEMU() succeeded: the command in cmd is being run
LaunchStep == pc = "startQEMU_228" /\ pc' = "startQEMU_235"

\* the boot device entries of c are those the policy check saw available
AgreesWithProbe(c) ==
  /\ At(c, "-drive", VirtioDiskValue) # {} <=> diskOk
  /\ HasToken(c, "-cdrom") <=> isoOk
  /\ isoOk => \E f \in IsoPaths : At(c, "-cdrom", f) # {}
  /\ At(c, "-drive", VirtioDiskValue) # {} \/ HasToken(c, "-cdrom")

(* C20: when no other party has changed the filesystem, every emulator     *)
(* command that is launched holds the virtio disk drive or the cdrom       *)
(* entry, and holds each of the two exactly when the policy check found    *)
(* the disk, respectively an image, available.                             *)
C20_LaunchedBootable ==
  [][ (LaunchStep /\ extChanges = 0) => AgreesWithProbe(cmd) ]_vars

C20_Witness ==
  /\ pc = "startQEMU_235"
  /\ extChanges = 0
  /\ procs[qemuPid] = [role |-> "qemu", st |-> "live"]
  /\ ~diskOk /\ isoOk /\ createLog = "failed"
  /\ HasToken(cmd, "-cdrom")
  /\ At(cmd, "-drive", VirtioDiskValue) = {}

====
